---- MODULE Spec2Model ----
(***************************************************************************)
(* Model of the incremental aggregation pipeline of the wellbeing tracker  *)
(* (processor/processor.py): the CategoryManager, the hourly and the daily *)
(* aggregation passes over the SQLite tables, and process_all.             *)
(*                                                                         *)
(* Tables are bags of rows (a SQL table without its rowid).  Timestamps    *)
(* are ISO-8601 strings in the program; they are fixed width up to the     *)
(* seconds and may carry a fraction, so their string order is the order of *)
(* the integer number of ticks since 1970-01-01T00:00:00 used here.        *)
(***************************************************************************)
EXTENDS Integers, Sequences, FiniteSets, Bags, TLC

(***************************************************************************)
(* Bounds of the model                                                     *)
(***************************************************************************)
MaxEvents == 3
TicksPerSecond == 2
MaxApps == 2

(***************************************************************************)
(* Program constants                                                       *)
(***************************************************************************)
HoursPerDay == 24
SecondsPerHour == 3600
EndOfHourSecond == 3599
LookbackHours == 2
LookbackDays == 1

NULL == "NULL"

(***************************************************************************)
(* Strings are sequences of characters, so that lower() and the substring  *)
(* test of get_category are computed and not assumed.                      *)
(***************************************************************************)
code == <<"c", "o", "d", "e">>
firefox == <<"f", "i", "r", "e", "f", "o", "x">>

\* names and patterns of the classification inputs
fire == <<"f", "i", "r", "e">>
codefire == <<"c", "o", "d", "e", "f", "i", "r", "e">>
firecode == <<"f", "i", "r", "e", "c", "o", "d", "e">>
vim == <<"v", "i", "m">>
Code == <<"C", "o", "d", "e">>
CodeFire == <<"C", "o", "d", "e", "F", "i", "r", "e">>

LowerChar(c) ==
    CASE c = "C" -> "c"
      [] c = "F" -> "f"
      [] OTHER -> c

\* a comparison that keeps the case of the letters
lower_CaseSensitive(s) == s

lower(s) == [i \in 1..Len(s) |-> LowerChar(s[i])]

IsSubstring(p, s) ==
    \E i \in 0..(Len(s) - Len(p)) : SubSeq(s, i + 1, i + Len(p)) = p

(***************************************************************************)
(* Time: ticks since the epoch, and the conversions the SQL and the        *)
(* datetime calls perform.                                                 *)
(***************************************************************************)
TicksPerHour == SecondsPerHour * TicksPerSecond
TicksPerDay == HoursPerDay * TicksPerHour

TS(d, h, s, f) == ((d * HoursPerDay + h) * SecondsPerHour + s) * TicksPerSecond + f

\* SQL NULL in a date or hour column
NoDate == 0 - 1

\* a timestamp text that is no date, e.g. 'not-a-timestamp': as TEXT it sorts
\* after every ISO timestamp, which starts with a digit
BadTimestamp == 100 * TicksPerDay

\* STRFTIME('%Y-%m-%d', timestamp), NULL when the text does not parse
EventDate(ts) == IF ts = BadTimestamp THEN NoDate ELSE ts \div TicksPerDay
\* CAST(STRFTIME('%H', timestamp) AS INTEGER)
EventHour(ts) ==
    IF ts = BadTimestamp THEN NoDate ELSE (ts \div TicksPerHour) % HoursPerDay

(***************************************************************************)
(* Inputs of the model                                                     *)
(***************************************************************************)
\* events as the collector writes them: timestamps may carry a fraction of a
\* second, and only a browser window has a website_url
Event(d, h, sec, f, app, url, duration) ==
    [timestamp |-> TS(d, h, sec, f), device_type |-> "desktop", app_name |-> app,
     website_url |-> url, duration_seconds |-> duration]

EventInputs ==
    { Event(0, 0, 5, 0, code, NULL, 30),
      Event(0, 0, EndOfHourSecond, 1, code, NULL, 20),
      Event(0, 2, 600, 0, code, NULL, 30),
      Event(0, 0, 5, 0, firefox, "a.com", 30),
      Event(0, 2, 600, 0, firefox, "a.com", 20),
      Event(1, 0, 0, 0, code, NULL, 30) }

\* rows no collector writes but the table admits, having no CHECK on its
\* columns: a negative duration, and a timestamp that is no date
InvalidEvents ==
    { Event(0, 2, 600, 1, code, NULL, 0 - 10),
      [Event(0, 0, 0, 0, code, NULL, 30) EXCEPT !.timestamp = BadTimestamp] }

\* the two events of the end-to-end scenario, at 10:05:00 and 10:50:00 of one
\* day, both with the website_url url
ScenarioEvents(url) ==
    SetToBag({ Event(0, 10, 300, 0, firefox, url, 30),
               Event(0, 10, 3000, 0, firefox, url, 20) })

\* the events the collector appends while the processor runs forever, the
\* later ones two days after the first
LoopEvents ==
    { Event(0, 0, 5, 0, code, NULL, 30),
      Event(2, 0, 0, 0, code, NULL, 30),
      Event(2, 0, 5, 0, firefox, "a.com", 20) }

NoRules == [status |-> "ok", categories |-> <<>>]
WorkRules ==
    [status |-> "ok",
     categories |-> << [name |-> "Work", apps |-> <<code>>],
                       [name |-> "Web", apps |-> <<firefox>>] >>]
\* the file does not exist / json.load raises on it
MissingFile == [status |-> "missing", categories |-> <<>>]
MalformedFile == [status |-> "malformed", categories |-> <<>>]
RuleFiles == {NoRules, WorkRules}
BrokenFiles == {MissingFile, MalformedFile}

(***************************************************************************)
(* Inputs of the classification: every categories file over these category *)
(* names, in every key order, with up to MaxApps patterns per category     *)
(***************************************************************************)
CategoryNames == {"Work", "Browsers"}
Patterns == {code, fire, codefire, Code}
AppNames == {<<>>, code, vim, firecode, CodeFire}

AppLists == UNION {[1..n -> Patterns] : n \in 0..MaxApps}

\* the keys of a JSON object are distinct
CategoryOrders ==
    {o \in UNION {[1..n -> CategoryNames] : n \in 0..Cardinality(CategoryNames)} :
        \A i, j \in 1..Len(o) : o[i] = o[j] => i = j}

ClassifyFiles ==
    { [status |-> "ok",
       categories |-> [i \in 1..Len(o) |-> [name |-> o[i], apps |-> a[i]]]] :
        o \in CategoryOrders, a \in [1..Cardinality(CategoryNames) -> AppLists] }

\* the rules of the priority example
PriorityRules ==
    [status |-> "ok",
     categories |-> << [name |-> "Work", apps |-> <<code>>],
                       [name |-> "Browsers", apps |-> <<codefire>>] >>]

(***************************************************************************)
(* Bags of rows                                                            *)
(***************************************************************************)
\* the rows S of table B
Where(B, S) == [r \in S |-> B[r]]

InsertAll(B, rows) == B (+) SetToBag(rows)

RECURSIVE BagSum(_, _)
BagSum(B, f) ==
    IF DOMAIN B = {} THEN 0
    ELSE LET r == CHOOSE x \in DOMAIN B : TRUE
         IN  B[r] * r[f] + BagSum([x \in (DOMAIN B) \ {r} |-> B[x]], f)

RECURSIVE SetMax(_)
SetMax(S) ==
    LET x == CHOOSE y \in S : TRUE
    IN  IF S = {x} THEN x
        ELSE LET m == SetMax(S \ {x}) IN IF x > m THEN x ELSE m

(***************************************************************************)
(* CategoryManager                                                         *)
(***************************************************************************)
\* d.setdefault(k, v): a key that is present keeps its value
DictSet_KeepFirst(d, k, v) ==
    IF \E i \in 1..Len(d) : d[i].app = k THEN d
    ELSE Append(d, [app |-> k, category |-> v])

\* dict assignment d[k] = v on an insertion-ordered dict
DictSet(d, k, v) ==
    IF \E i \in 1..Len(d) : d[i].app = k
    THEN [i \in 1..Len(d) |-> IF d[i].app = k THEN [app |-> k, category |-> v] ELSE d[i]]
    ELSE Append(d, [app |-> k, category |-> v])

\* patterns stored as the file spells them
RECURSIVE AddApps_AsSpelled(_, _, _)
AddApps_AsSpelled(d, apps, category) ==
    IF apps = <<>> THEN d
    ELSE AddApps_AsSpelled(DictSet(d, Head(apps), category), Tail(apps), category)

RECURSIVE AddApps(_, _, _)
AddApps(d, apps, category) ==
    IF apps = <<>> THEN d
    ELSE AddApps(DictSet(d, lower(Head(apps)), category), Tail(apps), category)

RECURSIVE BuildMappings(_, _)
BuildMappings(d, cats) ==
    IF cats = <<>> THEN d
    ELSE BuildMappings(AddApps(d, Head(cats).apps, Head(cats).name), Tail(cats))

\* load_categories: the mapping after the call, given the mapping before.  The
\* else branch (file missing) and the except branch (json.load raised) only
\* log: self.app_mappings keeps what the last successful load built.
load_categories(mappings, f) ==
    IF f.status = "ok" THEN BuildMappings(<<>>, f.categories) ELSE mappings

\* a resolver with the substring scan only
get_category_ScanOnly(mappings, app_name) ==
    IF app_name = <<>> THEN "Other"
    ELSE LET app_lower == lower(app_name)
             partial == {i \in 1..Len(mappings) : IsSubstring(mappings[i].app, app_lower)}
         IN  IF partial # {}
             THEN mappings[CHOOSE i \in partial : \A j \in partial : i <= j].category
             ELSE "Other"

get_category(mappings, app_name) ==
    IF app_name = <<>> THEN "Other"
    ELSE LET app_lower == lower(app_name)
             exact == {i \in 1..Len(mappings) : mappings[i].app = app_lower}
             partial == {i \in 1..Len(mappings) : IsSubstring(mappings[i].app, app_lower)}
         IN  IF exact # {} THEN mappings[CHOOSE i \in exact : TRUE].category
             ELSE IF partial # {}
                  THEN mappings[CHOOSE i \in partial : \A j \in partial : i <= j].category
                  ELSE "Other"

(***************************************************************************)
(* State                                                                   *)
(***************************************************************************)
VARIABLES
    events,                 \* table events (written by the collector only)
    file,                   \* the categories JSON file
    app_mappings,           \* CategoryManager.app_mappings, in insertion order
    app_categories,         \* table app_categories
    hourly_usage,           \* table hourly_usage, committed
    daily_usage,            \* table daily_usage, committed
    daily_category_usage,   \* table daily_category_usage, committed
    tx,                     \* the tables as the open transaction sees them
    hourly_data,            \* local of _process_hourly_aggregations
    daily_data,             \* local of _process_daily_aggregations
    start_processing_date,  \* local of _process_daily_aggregations
    pc,                     \* position of process_all
    failed,                 \* stages that logged an error in this cycle; with
                            \* "_rollback" when uncommitted writes were dropped
    snapshot,               \* events as the running hourly pass read them
    seen,                   \* events as the last completed hourly pass read them
    seen_mappings,          \* app_mappings of the last completed hourly pass
    unfailed,               \* hourly_usage as it would be had no hourly pass
                            \* failed since the last one that completed
    name_arg,               \* argument of the last call of get_category
    category_ret,           \* what that call returned
    running,                \* DataProcessor.running
    categories,             \* table categories of the backend: the names
    response                \* the last request of the category API and its status

vars == <<events, file, app_mappings, app_categories, hourly_usage, daily_usage,
          daily_category_usage, tx, hourly_data, daily_data,
          start_processing_date, pc, failed, snapshot, seen, seen_mappings,
          unfailed, name_arg, category_ret, running, categories, response>>

tables == <<hourly_usage, daily_usage, daily_category_usage>>
history == <<snapshot, seen, seen_mappings, unfailed>>
call == <<name_arg, category_ret>>
api == <<categories, response>>
NoRequest == [op |-> "none", category_name |-> NULL, app_name |-> <<>>, status |-> 0,
              categories_before |-> {}, rows_before |-> EmptyBag]

NoTx == [hourly_usage |-> EmptyBag, daily_usage |-> EmptyBag,
         daily_category_usage |-> EmptyBag]
HourlyPcs == {"hourly_select", "hourly_delete", "hourly_insert", "hourly_commit"}
DailyPcs == {"daily_select", "daily_delete", "daily_insert", "daily_category",
             "daily_commit"}
\* a write transaction is open: SQLite admits no other writer
WritePcs == {"hourly_insert", "hourly_commit", "daily_insert", "daily_category",
             "daily_commit"}

(***************************************************************************)
(* UNIQUE constraints of the schema; SQLite treats NULLs as distinct       *)
(***************************************************************************)
HourlyKey(r) == <<r.date, r.hour, r.device_type, r.app_name, r.website_url>>
DailyKey(r) == <<r.date, r.device_type, r.app_name, r.website_url>>
CategoryKey(r) == <<r.date, r.device_type, r.category>>

HourlyCopies(B, k) == BagCardinality(Where(B, {r \in DOMAIN B : HourlyKey(r) = k}))
DailyCopies(B, k) == BagCardinality(Where(B, {r \in DOMAIN B : DailyKey(r) = k}))
CategoryCopies(B, k) == BagCardinality(Where(B, {r \in DOMAIN B : CategoryKey(r) = k}))

uq_hourly(B) ==
    \A r \in DOMAIN B : r.website_url # NULL => HourlyCopies(B, HourlyKey(r)) <= 1
uq_daily(B) ==
    \A r \in DOMAIN B : r.website_url # NULL => DailyCopies(B, DailyKey(r)) <= 1
\* hourly_usage.date and hourly_usage.hour are NOT NULL
not_null_hourly(rows) == \A r \in rows : r.date # NoDate /\ r.hour # NoDate

uq_daily_cat(B) ==
    \A r \in DOMAIN B : CategoryCopies(B, CategoryKey(r)) <= 1

(***************************************************************************)
(* The queries of _process_hourly_aggregations                             *)
(***************************************************************************)
\* SELECT MAX(date || ' ' || printf('%02d', hour) || ':59:59') FROM hourly_usage
last_processed_ts(h) ==
    IF DOMAIN h = {} THEN TS(0, 0, 0, 0)
    ELSE SetMax({TS(r.date, r.hour, EndOfHourSecond, 0) : r \in DOMAIN h})

\* a window that starts at the watermark itself
start_processing_ts_NoLookback(h) == last_processed_ts(h)

start_processing_ts(h) == last_processed_ts(h) - LookbackHours * TicksPerHour

EventKey(e) ==
    [date |-> EventDate(e.timestamp), hour |-> EventHour(e.timestamp),
     device_type |-> e.device_type, app_name |-> e.app_name,
     website_url |-> e.website_url]

\* the SELECT without its GROUP BY: one row per event
SelectEvents_Ungrouped(ev, start) ==
    { [date |-> EventDate(e.timestamp), hour |-> EventHour(e.timestamp),
       device_type |-> e.device_type, app_name |-> e.app_name,
       website_url |-> e.website_url, event_count |-> 1,
       total_seconds |-> e.duration_seconds] :
        e \in {x \in DOMAIN ev : x.timestamp > start} }

\* SELECT ... FROM events WHERE timestamp > ? GROUP BY event_date, event_hour, ...
SelectEvents(ev, start) ==
    LET sel == Where(ev, {e \in DOMAIN ev : e.timestamp > start})
        grp(k) == Where(sel, {e \in DOMAIN sel : EventKey(e) = k})
    IN  { [date |-> k.date, hour |-> k.hour, device_type |-> k.device_type,
           app_name |-> k.app_name, website_url |-> k.website_url,
           event_count |-> BagCardinality(grp(k)),
           total_seconds |-> BagSum(grp(k), "duration_seconds")] :
            k \in {EventKey(e) : e \in DOMAIN sel} }

hours_to_update(data) == {<<row.date, row.hour>> : row \in data}

\* a DELETE by key (... AND website_url = ?), which no NULL url matches
DeleteHours_KeyedDelete(h, hours) ==
    Where(h, {r \in DOMAIN h : <<r.date, r.hour>> \notin hours \/ r.website_url = NULL})

\* a DELETE without a WHERE clause
DeleteHours_All(h, hours) == EmptyBag

\* a DELETE by date alone (WHERE date = ?)
DeleteHours_WholeDate(h, hours) ==
    Where(h, {r \in DOMAIN h : r.date \notin {slot[1] : slot \in hours}})

DeleteHours(h, hours) == Where(h, {r \in DOMAIN h : <<r.date, r.hour>> \notin hours})

HourlyRows(data, mappings) ==
    { [date |-> row.date, hour |-> row.hour, device_type |-> row.device_type,
       app_name |-> row.app_name, website_url |-> row.website_url,
       category |-> get_category(mappings, row.app_name),
       total_seconds |-> row.total_seconds, event_count |-> row.event_count] :
        row \in data }

\* hourly_usage after a pass that runs to its end on the events ev
HourlyPass(h, ev, mappings) ==
    LET data == SelectEvents(ev, start_processing_ts(h))
    IN  IF data = {} THEN h
        ELSE InsertAll(DeleteHours(h, hours_to_update(data)), HourlyRows(data, mappings))

(***************************************************************************)
(* The queries of _process_daily_aggregations                              *)
(***************************************************************************)
\* SELECT MAX(date) FROM daily_usage
last_processed_date(d) ==
    IF DOMAIN d = {} THEN 0 ELSE SetMax({r.date : r \in DOMAIN d})

StartProcessingDate(d) == last_processed_date(d) - LookbackDays

DailyGroup(r) ==
    [date |-> r.date, device_type |-> r.device_type, app_name |-> r.app_name,
     website_url |-> r.website_url, category |-> r.category]

\* SELECT ... FROM hourly_usage WHERE date >= ? GROUP BY date, device_type,
\* app_name, website_url, category
SelectHourlyUsage(h, start) ==
    LET sel == Where(h, {r \in DOMAIN h : r.date >= start})
        grp(k) == Where(sel, {r \in DOMAIN sel : DailyGroup(r) = k})
    IN  { [date |-> k.date, device_type |-> k.device_type, app_name |-> k.app_name,
           website_url |-> k.website_url, category |-> k.category,
           total_seconds |-> BagSum(grp(k), "total_seconds"),
           event_count |-> BagSum(grp(k), "event_count")] :
            k \in {DailyGroup(r) : r \in DOMAIN sel} }

dates_to_update(data) == {row.date : row \in data}

DeleteDates(B, dates) == Where(B, {r \in DOMAIN B : r.date \notin dates})

CategoryGroup(r) ==
    [date |-> r.date, device_type |-> r.device_type, category |-> r.category]

\* the category query without its WHERE clause
SelectDailyUsage_AllDates(d, start) ==
    LET grp(k) == Where(d, {r \in DOMAIN d : CategoryGroup(r) = k})
    IN  { [date |-> k.date, device_type |-> k.device_type, category |-> k.category,
           total_seconds |-> BagSum(grp(k), "total_seconds")] :
            k \in {CategoryGroup(r) : r \in DOMAIN d} }

\* the category query with WHERE date > ?, as an earlier revision had it
SelectDailyUsage_StrictDate(d, start) ==
    LET sel == Where(d, {r \in DOMAIN d : r.date > start})
        grp(k) == Where(sel, {r \in DOMAIN sel : CategoryGroup(r) = k})
    IN  { [date |-> k.date, device_type |-> k.device_type, category |-> k.category,
           total_seconds |-> BagSum(grp(k), "total_seconds")] :
            k \in {CategoryGroup(r) : r \in DOMAIN sel} }

\* SELECT ... FROM daily_usage WHERE date >= ? GROUP BY date, device_type, category
SelectDailyUsage(d, start) ==
    LET sel == Where(d, {r \in DOMAIN d : r.date >= start})
        grp(k) == Where(sel, {r \in DOMAIN sel : CategoryGroup(r) = k})
    IN  { [date |-> k.date, device_type |-> k.device_type, category |-> k.category,
           total_seconds |-> BagSum(grp(k), "total_seconds")] :
            k \in {CategoryGroup(r) : r \in DOMAIN sel} }

\* <<daily_usage, daily_category_usage>> after a daily pass on the hourly
\* buckets h: what the pass commits, or the tables as they were when it
\* returns early or an INSERT hits a UNIQUE constraint
DailyPass(h, d, c) ==
    LET start == StartProcessingDate(d)
        data == SelectHourlyUsage(h, start)
        d2 == InsertAll(DeleteDates(d, dates_to_update(data)), data)
        c2 == InsertAll(DeleteDates(c, dates_to_update(data)),
                        SelectDailyUsage(d2, start))
    IN  IF data = {} \/ ~uq_daily(d2) \/ ~uq_daily_cat(c2) THEN <<d, c>>
        ELSE <<d2, c2>>

(***************************************************************************)
(* Initial state: empty database, CategoryManager constructed              *)
(***************************************************************************)
Init ==
    /\ events = EmptyBag
    /\ file \in RuleFiles
    /\ app_mappings = load_categories(<<>>, file)
    /\ app_categories = {}
    /\ hourly_usage = EmptyBag
    /\ daily_usage = EmptyBag
    /\ daily_category_usage = EmptyBag
    /\ tx = NoTx
    /\ hourly_data = {}
    /\ daily_data = {}
    /\ start_processing_date = NoDate
    /\ pc = "idle"
    /\ failed = {}
    /\ snapshot = EmptyBag
    /\ seen = EmptyBag
    /\ seen_mappings = <<>>
    /\ unfailed = EmptyBag
    /\ name_arg = <<>>
    /\ category_ret = "Other"
    /\ running = TRUE
    /\ categories = {}
    /\ response = NoRequest

(***************************************************************************)
(* The collaborators: the collector and the category editor                *)
(***************************************************************************)
\* HyprlandCollector._save_event.  Each input is one row of the collector (its
\* datetime.now() differs from row to row); while the processor holds the write
\* lock the INSERT of the collector does not go through.
AppendEvent(e) ==
    /\ BagCardinality(events) < MaxEvents
    /\ ~BagIn(e, events)
    /\ pc \notin WritePcs
    /\ events' = events (+) SetToBag({e})
    /\ UNCHANGED <<api, running, call, file, app_mappings, app_categories, tables, tx, hourly_data,
                   daily_data, start_processing_date, pc, failed, history>>

\* the categories file is rewritten.  process_all reads the file in its first
\* statement only, so a rewrite during a cycle acts as one right after it.
SetRules(f) ==
    /\ pc = "idle"
    /\ f # file
    /\ file' = f
    /\ UNCHANGED <<api, running, call, events, app_mappings, app_categories, tables, tx, hourly_data,
                   daily_data, start_processing_date, pc, failed, history>>

(***************************************************************************)
(* process_all                                                             *)
(***************************************************************************)
\* process_all up to the aggregations: load_categories, then
\* _update_app_categories_table (DELETE all, INSERT the current mappings)
\* a process_all that calls the daily aggregation first
StartCycle_DailyFirst ==
    /\ pc = "idle"
    /\ app_mappings' = load_categories(app_mappings, file)
    /\ app_categories' = {app_mappings'[i] : i \in 1..Len(app_mappings')}
    /\ failed' = IF file.status = "ok" THEN {} ELSE {"categories"}
    /\ pc' = "daily_select"
    /\ UNCHANGED <<api, running, call, events, file, tables, tx, hourly_data, daily_data,
                   start_processing_date, history>>

StartCycle ==
    /\ pc = "idle"
    /\ app_mappings' = load_categories(app_mappings, file)
    /\ app_categories' = {app_mappings'[i] : i \in 1..Len(app_mappings')}
    /\ failed' = IF file.status = "ok" THEN {} ELSE {"categories"}
    /\ pc' = "hourly_select"
    /\ UNCHANGED <<api, running, call, events, file, tables, tx, hourly_data, daily_data,
                   start_processing_date, history>>

(***************************************************************************)
(* _process_hourly_aggregations                                            *)
(***************************************************************************)
\* an except branch that keeps what the pass has written so far (a connection
\* in autocommit mode)
HourlyAbort_Autocommit ==
    /\ hourly_usage' = IF pc \in WritePcs THEN tx.hourly_usage ELSE hourly_usage
    /\ tx' = NoTx
    /\ hourly_data' = {}
    /\ snapshot' = EmptyBag
    /\ unfailed' = HourlyPass(unfailed, IF pc = "hourly_select" THEN events ELSE snapshot,
                            app_mappings)
    /\ failed' = failed \cup {"hourly"}
                  \cup (IF pc \in WritePcs THEN {"hourly_rollback"} ELSE {})
    /\ pc' = "daily_select"
    /\ UNCHANGED <<api, running, call, events, file, app_mappings, app_categories, daily_usage,
                   daily_category_usage, daily_data, start_processing_date, seen,
                   seen_mappings>>

\* an except branch that leaves the connection and its transaction open
HourlyAbort_KeepsTx ==
    /\ hourly_data' = {}
    /\ snapshot' = EmptyBag
    /\ unfailed' = HourlyPass(unfailed, IF pc = "hourly_select" THEN events ELSE snapshot,
                            app_mappings)
    /\ failed' = failed \cup {"hourly"}
    /\ pc' = "daily_select"
    /\ UNCHANGED <<api, running, call, events, file, app_mappings, app_categories, tables, tx,
                   daily_data, start_processing_date, seen, seen_mappings>>

\* the except branch: the connection is dropped without commit
HourlyAbort ==
    /\ tx' = NoTx
    /\ hourly_data' = {}
    /\ snapshot' = EmptyBag
    /\ unfailed' = HourlyPass(unfailed, IF pc = "hourly_select" THEN events ELSE snapshot,
                            app_mappings)
    /\ failed' = failed \cup {"hourly"}
                  \cup (IF pc \in WritePcs THEN {"hourly_rollback"} ELSE {})
    /\ pc' = "daily_select"
    /\ UNCHANGED <<api, running, call, events, file, app_mappings, app_categories, tables, daily_data,
                   start_processing_date, seen, seen_mappings>>

\* a pass without the early return on an empty selection
HourlySelect_NoEarlyReturn ==
    /\ pc = "hourly_select"
    /\ pc' = "hourly_delete"
    /\ hourly_data' = SelectEvents(events, start_processing_ts(hourly_usage))
    /\ snapshot' = events
    /\ UNCHANGED <<api, running, call, events, file, app_mappings, app_categories, tables, tx,
                   daily_data, start_processing_date, failed, seen, seen_mappings,
                   unfailed>>

HourlySelect ==
    /\ pc = "hourly_select"
    /\ LET data == SelectEvents(events, start_processing_ts(hourly_usage))
       IN  IF data = {}
           THEN /\ pc' = "daily_select"
                /\ seen' = events
                /\ seen_mappings' = app_mappings
                /\ unfailed' = hourly_usage
                /\ UNCHANGED <<hourly_data, snapshot>>
           ELSE /\ pc' = "hourly_delete"
                /\ hourly_data' = data
                /\ snapshot' = events
                /\ UNCHANGED <<seen, seen_mappings, unfailed>>
    /\ UNCHANGED <<api, running, call, events, file, app_mappings, app_categories, tables, tx,
                   daily_data, start_processing_date, failed>>

\* a pass that also clears the daily rows of the dates it rewrites
HourlyDelete_ClearsDaily ==
    /\ pc = "hourly_delete"
    /\ tx' = [hourly_usage |-> DeleteHours(hourly_usage, hours_to_update(hourly_data)),
              daily_usage |->
                  DeleteDates(daily_usage, {row.date : row \in hourly_data}),
              daily_category_usage |->
                  DeleteDates(daily_category_usage, {row.date : row \in hourly_data})]
    /\ pc' = "hourly_insert"
    /\ UNCHANGED <<api, running, call, events, file, app_mappings, app_categories, tables, hourly_data,
                   daily_data, start_processing_date, failed, history>>

HourlyDelete ==
    /\ pc = "hourly_delete"
    /\ tx' = [hourly_usage |-> DeleteHours(hourly_usage, hours_to_update(hourly_data)),
              daily_usage |-> daily_usage,
              daily_category_usage |-> daily_category_usage]
    /\ pc' = "hourly_insert"
    /\ UNCHANGED <<api, running, call, events, file, app_mappings, app_categories, tables, hourly_data,
                   daily_data, start_processing_date, failed, history>>

HourlyInsert ==
    /\ pc = "hourly_insert"
    /\ LET rows == HourlyRows(hourly_data, app_mappings)
           new == InsertAll(tx.hourly_usage, rows)
       IN  IF not_null_hourly(rows) /\ uq_hourly(new)
           THEN /\ tx' = [tx EXCEPT !.hourly_usage = new]
                /\ pc' = "hourly_commit"
                /\ UNCHANGED <<api, running, call, events, file, app_mappings, app_categories, tables,
                               hourly_data, daily_data, start_processing_date,
                               failed, history>>
           ELSE HourlyAbort

HourlyCommit ==
    /\ pc = "hourly_commit"
    /\ hourly_usage' = tx.hourly_usage
    /\ daily_usage' = tx.daily_usage
    /\ daily_category_usage' = tx.daily_category_usage
    /\ tx' = NoTx
    /\ hourly_data' = {}
    /\ seen' = snapshot
    /\ seen_mappings' = app_mappings
    /\ snapshot' = EmptyBag
    /\ unfailed' = tx.hourly_usage
    /\ pc' = "daily_select"
    /\ UNCHANGED <<api, running, call, events, file, app_mappings, app_categories, daily_data,
                   start_processing_date, failed>>

\* a storage error (connection, lock) at any statement of the pass
HourlyError ==
    /\ pc \in HourlyPcs
    /\ HourlyAbort

(***************************************************************************)
(* _process_daily_aggregations                                             *)
(***************************************************************************)
DailyAbort ==
    /\ tx' = NoTx
    /\ daily_data' = {}
    /\ start_processing_date' = NoDate
    /\ failed' = failed \cup {"daily"}
                  \cup (IF pc \in WritePcs THEN {"daily_rollback"} ELSE {})
    /\ pc' = "cycle_end"
    /\ UNCHANGED <<api, running, call, events, file, app_mappings, app_categories, tables, hourly_data,
                   history>>

DailySelect ==
    /\ pc = "daily_select"
    /\ LET start == StartProcessingDate(daily_usage)
           data == SelectHourlyUsage(hourly_usage, start)
       IN  IF data = {}
           THEN /\ pc' = "cycle_end"
                /\ UNCHANGED <<daily_data, start_processing_date>>
           ELSE /\ pc' = "daily_delete"
                /\ daily_data' = data
                /\ start_processing_date' = start
    /\ UNCHANGED <<api, running, call, events, file, app_mappings, app_categories, tables, tx,
                   hourly_data, failed, history>>

DailyDelete ==
    /\ pc = "daily_delete"
    /\ tx' = [hourly_usage |-> hourly_usage,
              daily_usage |-> DeleteDates(daily_usage, dates_to_update(daily_data)),
              daily_category_usage |->
                  DeleteDates(daily_category_usage, dates_to_update(daily_data))]
    /\ pc' = "daily_insert"
    /\ UNCHANGED <<api, running, call, events, file, app_mappings, app_categories, tables, hourly_data,
                   daily_data, start_processing_date, failed, history>>

DailyInsert ==
    /\ pc = "daily_insert"
    /\ LET new == InsertAll(tx.daily_usage, daily_data)
       IN  IF uq_daily(new)
           THEN /\ tx' = [tx EXCEPT !.daily_usage = new]
                /\ pc' = "daily_category"
                /\ UNCHANGED <<api, running, call, events, file, app_mappings, app_categories, tables,
                               hourly_data, daily_data, start_processing_date,
                               failed, history>>
           ELSE DailyAbort

DailyCategory ==
    /\ pc = "daily_category"
    /\ LET category_data == SelectDailyUsage(tx.daily_usage, start_processing_date)
           new == InsertAll(tx.daily_category_usage, category_data)
       IN  IF uq_daily_cat(new)
           THEN /\ tx' = [tx EXCEPT !.daily_category_usage = new]
                /\ pc' = "daily_commit"
                /\ UNCHANGED <<api, running, call, events, file, app_mappings, app_categories, tables,
                               hourly_data, daily_data, start_processing_date,
                               failed, history>>
           ELSE DailyAbort

DailyCommit ==
    /\ pc = "daily_commit"
    /\ hourly_usage' = tx.hourly_usage
    /\ daily_usage' = tx.daily_usage
    /\ daily_category_usage' = tx.daily_category_usage
    /\ tx' = NoTx
    /\ daily_data' = {}
    /\ start_processing_date' = NoDate
    /\ pc' = "cycle_end"
    /\ UNCHANGED <<api, running, call, events, file, app_mappings, app_categories, hourly_data, failed,
                   history>>

DailyError ==
    /\ pc \in DailyPcs
    /\ DailyAbort

\* process_all returns
EndCycle ==
    /\ pc = "cycle_end"
    /\ pc' = "idle"
    /\ failed' = {}
    /\ UNCHANGED <<api, running, call, events, file, app_mappings, app_categories, tables, tx,
                   hourly_data, daily_data, start_processing_date, history>>

(***************************************************************************)
(* Specification                                                           *)
(***************************************************************************)
Next ==
    \/ \E e \in EventInputs : AppendEvent(e)
    \/ \E f \in RuleFiles : SetRules(f)
    \/ StartCycle
    \/ HourlySelect
    \/ HourlyDelete
    \/ HourlyInsert
    \/ HourlyCommit
    \/ HourlyError
    \/ DailySelect
    \/ DailyDelete
    \/ DailyInsert
    \/ DailyCategory
    \/ DailyCommit
    \/ DailyError
    \/ EndCycle

Spec == Init /\ [][Next]_vars

(***************************************************************************)
(* The pipeline in a faulty environment: the categories file may also go   *)
(* missing or malformed, and the events table may also receive invalid     *)
(* rows                                                                    *)
(***************************************************************************)
FaultNext ==
    \/ Next
    \/ \E f \in BrokenFiles : SetRules(f)
    \/ \E e \in InvalidEvents : AppendEvent(e)

FaultSpec == Init /\ [][FaultNext]_vars

(***************************************************************************)
(* The pipeline started on an empty database whose events table holds the  *)
(* two events of the end-to-end scenario                                   *)
(***************************************************************************)
ScenarioInit ==
    /\ \E url \in {NULL, "a.com"} : events = ScenarioEvents(url)
    /\ file \in RuleFiles
    /\ app_mappings = load_categories(<<>>, file)
    /\ app_categories = {}
    /\ hourly_usage = EmptyBag
    /\ daily_usage = EmptyBag
    /\ daily_category_usage = EmptyBag
    /\ tx = NoTx
    /\ hourly_data = {}
    /\ daily_data = {}
    /\ start_processing_date = NoDate
    /\ pc = "idle"
    /\ failed = {}
    /\ snapshot = EmptyBag
    /\ seen = EmptyBag
    /\ seen_mappings = <<>>
    /\ unfailed = EmptyBag
    /\ name_arg = <<>>
    /\ category_ret = "Other"
    /\ running = TRUE
    /\ categories = {}
    /\ response = NoRequest

ScenarioSpec == ScenarioInit /\ [][Next]_vars

(***************************************************************************)
(* run_continuous: the loop around process_all, with the handler of SIGINT *)
(* and SIGTERM.  The interpreter runs the handler between two bytecodes of *)
(* the main thread, at any position of the loop; time.sleep resumes after  *)
(* a handler that returns.                                                 *)
(***************************************************************************)
LoopInit ==
    /\ events = EmptyBag
    /\ file \in RuleFiles
    /\ app_mappings = load_categories(<<>>, file)
    /\ app_categories = {}
    /\ hourly_usage = EmptyBag
    /\ daily_usage = EmptyBag
    /\ daily_category_usage = EmptyBag
    /\ tx = NoTx
    /\ hourly_data = {}
    /\ daily_data = {}
    /\ start_processing_date = NoDate
    /\ pc = "loop_test"
    /\ failed = {}
    /\ snapshot = EmptyBag
    /\ seen = EmptyBag
    /\ seen_mappings = <<>>
    /\ unfailed = EmptyBag
    /\ name_arg = <<>>
    /\ category_ret = "Other"
    /\ running = TRUE
    /\ categories = {}
    /\ response = NoRequest

\* while self.running: on to the call of process_all, or out of the loop
LoopTest ==
    /\ pc = "loop_test"
    /\ pc' = IF running THEN "idle" ELSE "stopped"
    /\ UNCHANGED <<api, running, call, events, file, app_mappings, app_categories, tables,
                   tx, hourly_data, daily_data, start_processing_date, failed,
                   history>>

\* process_all returns and time.sleep(process_interval) begins
StartSleep ==
    /\ pc = "cycle_end"
    /\ pc' = "sleep"
    /\ failed' = {}
    /\ UNCHANGED <<api, running, call, events, file, app_mappings, app_categories, tables,
                   tx, hourly_data, daily_data, start_processing_date, history>>

\* time.sleep returns
WakeUp ==
    /\ pc = "sleep"
    /\ pc' = "loop_test"
    /\ UNCHANGED <<api, running, call, events, file, app_mappings, app_categories, tables,
                   tx, hourly_data, daily_data, start_processing_date, failed,
                   history>>

\* a handler that raises, as the default handler of SIGINT does: the exception
\* leaves process_all and the loop, and the open transaction is dropped
signal_handler_Raises ==
    /\ running
    /\ pc # "stopped"
    /\ running' = FALSE
    /\ pc' = "stopped"
    /\ tx' = NoTx
    /\ hourly_data' = {}
    /\ daily_data' = {}
    /\ start_processing_date' = NoDate
    /\ snapshot' = EmptyBag
    /\ UNCHANGED <<api, call, events, file, app_mappings, app_categories, tables, failed,
                   seen, seen_mappings, unfailed>>

\* _signal_handler: SIGINT or SIGTERM is delivered
signal_handler ==
    /\ running
    /\ pc # "stopped"
    /\ running' = FALSE
    /\ UNCHANGED <<api, call, events, file, app_mappings, app_categories, tables, tx,
                   hourly_data, daily_data, start_processing_date, pc, failed,
                   history>>

\* the steps of the processor itself
LoopProgress ==
    \/ LoopTest
    \/ StartCycle
    \/ HourlySelect
    \/ HourlyDelete
    \/ HourlyInsert
    \/ HourlyCommit
    \/ DailySelect
    \/ DailyDelete
    \/ DailyInsert
    \/ DailyCategory
    \/ DailyCommit
    \/ StartSleep
    \/ WakeUp

LoopNext ==
    \/ LoopProgress
    \/ HourlyError
    \/ DailyError
    \/ signal_handler
    \/ \E e \in LoopEvents : AppendEvent(e)
    \/ \E f \in RuleFiles : SetRules(f)

\* the interpreter keeps running the main thread
LoopSpec == LoopInit /\ [][LoopNext]_vars /\ WF_vars(LoopProgress)

(***************************************************************************)
(* The CategoryManager alone: constructed on a categories file, then asked *)
(* for the category of app names                                           *)
(***************************************************************************)
ClassifyInit ==
    /\ events = EmptyBag
    /\ file \in ClassifyFiles
    /\ app_mappings = <<>>
    /\ app_categories = {}
    /\ hourly_usage = EmptyBag
    /\ daily_usage = EmptyBag
    /\ daily_category_usage = EmptyBag
    /\ tx = NoTx
    /\ hourly_data = {}
    /\ daily_data = {}
    /\ start_processing_date = NoDate
    /\ pc = "new"
    /\ failed = {}
    /\ snapshot = EmptyBag
    /\ seen = EmptyBag
    /\ seen_mappings = <<>>
    /\ unfailed = EmptyBag
    /\ name_arg = <<>>
    /\ category_ret = "Other"
    /\ running = TRUE
    /\ categories = {}
    /\ response = NoRequest

\* CategoryManager.__init__: load_categories on the empty mapping
ClassifyLoad ==
    /\ pc = "new"
    /\ app_mappings' = load_categories(app_mappings, file)
    /\ pc' = "loaded"
    /\ UNCHANGED <<api, running, call, events, file, app_categories, tables, tx, hourly_data,
                   daily_data, start_processing_date, failed, history>>

\* category = self.category_manager.get_category(app_name)
Classify(n) ==
    /\ pc \in {"loaded", "classified"}
    /\ name_arg' = n
    /\ category_ret' = get_category(app_mappings, n)
    /\ pc' = "classified"
    /\ UNCHANGED <<api, running, events, file, app_mappings, app_categories, tables, tx,
                   hourly_data, daily_data, start_processing_date, failed, history>>

ClassifyNext ==
    \/ ClassifyLoad
    \/ \E n \in AppNames : Classify(n)

ClassifySpec == ClassifyInit /\ [][ClassifyNext]_vars

\* load_categories called again on the same file, as process_all does in
\* every cycle; name_arg and category_ret keep the call made before it
ClassifyReload ==
    /\ pc = "classified"
    /\ app_mappings' = load_categories(app_mappings, file)
    /\ pc' = "reloaded"
    /\ UNCHANGED <<api, running, call, events, file, app_categories, tables, tx,
                   hourly_data, daily_data, start_processing_date, failed, history>>

ReloadNext ==
    \/ ClassifyNext
    \/ ClassifyReload

ReloadSpec == ClassifyInit /\ [][ReloadNext]_vars

(***************************************************************************)
(* Steps and measures the properties speak about                           *)
(***************************************************************************)
\* the hourly pass commits in this step
HourlyCommits ==
    pc = "hourly_commit" /\ pc' = "daily_select" /\ "hourly" \notin failed'

\* the daily pass commits in this step
DailyCommits ==
    pc = "daily_commit" /\ pc' = "cycle_end" /\ "daily" \notin failed'

SlotsOf(h) == {<<r.date, r.hour>> : r \in DOMAIN h}
DatesOf(B) == {r.date : r \in DOMAIN B}

\* total of field f over the rows of B whose key is k
HourlyKeySum(B, k, f) == BagSum(Where(B, {r \in DOMAIN B : HourlyKey(r) = k}), f)
DailyKeySum(B, k, f) == BagSum(Where(B, {r \in DOMAIN B : DailyKey(r) = k}), f)
CategoryKeySum(B, k, f) == BagSum(Where(B, {r \in DOMAIN B : CategoryKey(r) = k}), f)

EventKeyTuple(e) ==
    <<EventDate(e.timestamp), EventHour(e.timestamp), e.device_type, e.app_name,
      e.website_url>>

\* the event is counted: a bucket of its (date, hour, device, app, url) exists
Counted(e, h) == \E r \in DOMAIN h : HourlyKey(r) = EventKeyTuple(e)

(***************************************************************************)
(* C1: running the hourly pass twice in a row, with no event appended and  *)
(* no rule change in between, leaves hourly_usage as the first pass left   *)
(* it.  Violated: the second pass may replace a bucket of hour H-2 by the  *)
(* events of its last second only.                                         *)
(***************************************************************************)
C1_HourlyIdempotent ==
    [][ (HourlyCommits /\ snapshot = seen /\ app_mappings = seen_mappings)
            => hourly_usage' = hourly_usage ]_vars

(***************************************************************************)
(* C2: every bucket an hourly pass writes holds the sum of the durations   *)
(* and the number of ALL events of its (date, hour, device, app, url) that *)
(* the store held when the pass read it.  Violated in the same way.        *)
(***************************************************************************)
C2_HourlySum ==
    [][ HourlyCommits =>
          \A r \in DOMAIN hourly_usage' :
              <<r.date, r.hour>> \in hours_to_update(hourly_data) =>
                  /\ r.total_seconds =
                        BagSum(Where(snapshot,
                            {e \in DOMAIN snapshot : EventKeyTuple(e) = HourlyKey(r)}),
                            "duration_seconds")
                  /\ r.event_count =
                        BagCardinality(Where(snapshot,
                            {e \in DOMAIN snapshot : EventKeyTuple(e) = HourlyKey(r)})) ]_vars

(***************************************************************************)
(* C3: an event that is counted in a bucket stays counted after every      *)
(* later pass.  Violated: the partial replace drops the bucket of an       *)
(* event that was counted.                                                 *)
(***************************************************************************)
C3_StaysCounted ==
    [][ \A e \in DOMAIN events :
            Counted(e, hourly_usage) => Counted(e, hourly_usage') ]_vars

(***************************************************************************)
(* C4: when exactly one event e was appended since the last completed      *)
(* hourly pass, with a timestamp inside the lookback window, the next pass *)
(* raises the bucket of e's key by e's duration and by one event, leaves   *)
(* one row for that key and keeps the totals of every other key.           *)
(* Violated for an event in the last second of hour H-2.                   *)
(***************************************************************************)
C4_LateEvent ==
    [][ \A e \in DOMAIN snapshot :
          ( /\ HourlyCommits
            /\ snapshot = seen (+) SetToBag({e})
            /\ e.timestamp > start_processing_ts(hourly_usage) )
          => LET k == EventKeyTuple(e)
                 keys == {HourlyKey(r) : r \in DOMAIN hourly_usage}
                           \cup {HourlyKey(r) : r \in DOMAIN hourly_usage'}
             IN  /\ HourlyCopies(hourly_usage', k) = 1
                 /\ HourlyKeySum(hourly_usage', k, "total_seconds") =
                      HourlyKeySum(hourly_usage, k, "total_seconds")
                        + e.duration_seconds
                 /\ HourlyKeySum(hourly_usage', k, "event_count") =
                      HourlyKeySum(hourly_usage, k, "event_count") + 1
                 /\ \A k2 \in keys \ {k} :
                      /\ HourlyKeySum(hourly_usage', k2, "total_seconds") =
                           HourlyKeySum(hourly_usage, k2, "total_seconds")
                      /\ HourlyKeySum(hourly_usage', k2, "event_count") =
                           HourlyKeySum(hourly_usage, k2, "event_count") ]_vars

(***************************************************************************)
(* C5: in every reachable state the category buckets agree with the usage  *)
(* buckets: per (date, device_type, category) the DailyCategoryBucket      *)
(* total is the sum of the DailyUsageBuckets of that category, and per     *)
(* date the two tables have the same total.                                *)
(***************************************************************************)
C5_CategoryConsistent ==
    /\ \A d \in DatesOf(daily_usage) \cup DatesOf(daily_category_usage) :
          BagSum(Where(daily_category_usage, {r \in DOMAIN daily_category_usage : r.date = d}), "total_seconds")
            = BagSum(Where(daily_usage, {r \in DOMAIN daily_usage : r.date = d}), "total_seconds")
    /\ \A k \in {CategoryKey(r) : r \in DOMAIN daily_usage}
                  \cup {CategoryKey(r) : r \in DOMAIN daily_category_usage} :
          CategoryKeySum(daily_category_usage, k, "total_seconds")
            = CategoryKeySum(daily_usage, k, "total_seconds")

\* a committed day whose usage falls into two categories
C5_Witness ==
    \E r1 \in DOMAIN daily_category_usage, r2 \in DOMAIN daily_category_usage :
        /\ r1.date = r2.date
        /\ r1.category # r2.category
        /\ \E u \in DOMAIN daily_usage : u.date = r1.date /\ u.category = r1.category

(***************************************************************************)
(* C6: when a daily pass commits, every DailyUsageBucket of a date the     *)
(* pass touched holds the sums of total_seconds and event_count over all   *)
(* HourlyUsageBuckets of its (date, device_type, app_name, website_url).   *)
(* Violated when the hourly buckets of one app carry two categories.       *)
(***************************************************************************)
C6_DailySum ==
    [][ DailyCommits =>
          \A r \in DOMAIN daily_usage' :
              r.date \in dates_to_update(daily_data) =>
                  /\ r.total_seconds =
                        DailyKeySum(hourly_usage, DailyKey(r), "total_seconds")
                  /\ r.event_count =
                        DailyKeySum(hourly_usage, DailyKey(r), "event_count") ]_vars

(***************************************************************************)
(* C7: at most one DailyUsageBucket exists per (date, device_type,         *)
(* app_name, website_url), and the INSERT of the daily pass never hits the *)
(* UNIQUE constraint.  Violated after a rule change between two hourly     *)
(* passes: two rows for a NULL url, an IntegrityError otherwise.           *)
(***************************************************************************)
C7_DailyUnique ==
    /\ \A r \in DOMAIN daily_usage : DailyCopies(daily_usage, DailyKey(r)) <= 1
    /\ pc = "daily_insert" => uq_daily(InsertAll(tx.daily_usage, daily_data))

(***************************************************************************)
(* C8: in every reachable state at most one HourlyUsageBucket exists per   *)
(* (date, hour, device_type, app_name, website_url), NULL urls included,   *)
(* and at most one DailyCategoryBucket per (date, device_type, category).  *)
(***************************************************************************)
C8_KeysUnique ==
    /\ \A r \in DOMAIN hourly_usage :
          HourlyCopies(hourly_usage, HourlyKey(r)) <= 1
    /\ \A r \in DOMAIN daily_category_usage :
          CategoryCopies(daily_category_usage, CategoryKey(r)) <= 1

\* a NULL-url slot rewritten under changed rules, next to one that kept its
\* category, with the day's category buckets committed
C8_Witness ==
    /\ \E r1 \in DOMAIN hourly_usage, r2 \in DOMAIN hourly_usage :
          /\ r1.website_url = NULL /\ r2.website_url = NULL
          /\ r1.app_name = r2.app_name /\ r1.date = r2.date
          /\ r1.category = "Work" /\ r2.category = "Other"
    /\ \E c1 \in DOMAIN daily_category_usage, c2 \in DOMAIN daily_category_usage :
          c1 # c2

(***************************************************************************)
(* C9: a pass that fails leaves the three bucket tables as they were; the  *)
(* tables change only in a commit, and then to the complete result of the  *)
(* pass; no (date, hour) slot and no date loses all its buckets, and the   *)
(* dates of daily_usage are those of daily_category_usage.                 *)
(***************************************************************************)
PassFails ==
    \/ "hourly" \in failed' /\ "hourly" \notin failed
    \/ "daily" \in failed' /\ "daily" \notin failed

C9_AtomicReplace ==
    [][ /\ PassFails => tables' = tables
        /\ tables' # tables =>
              /\ HourlyCommits \/ DailyCommits
              /\ tables' = <<tx.hourly_usage, tx.daily_usage, tx.daily_category_usage>>
        /\ SlotsOf(hourly_usage) \subseteq SlotsOf(hourly_usage')
        /\ DatesOf(daily_usage) \subseteq DatesOf(daily_usage')
        /\ DatesOf(daily_usage') = DatesOf(daily_category_usage') ]_vars

\* an hourly pass has just failed after its deletes, with buckets committed before
C9_Witness ==
    /\ pc = "daily_select"
    /\ "hourly_rollback" \in failed
    /\ hourly_usage # EmptyBag

(***************************************************************************)
(* C10: when the hourly pass of a cycle has failed, the daily pass of that *)
(* cycle does not run.  Violated: process_all calls the daily pass         *)
(* whatever the hourly pass did.                                           *)
(***************************************************************************)
C10_HourlyFailureStopsCycle ==
    pc \in DailyPcs \ {"daily_select"} => "hourly" \notin failed

(***************************************************************************)
(* C11: after a load in which the categories file is missing or malformed, *)
(* also when an earlier load had succeeded, the rule set is empty and      *)
(* every app name is classified "Other", for the whole cycle that follows. *)
(* Violated: a failed reload keeps the mappings of the last good load.     *)
(***************************************************************************)
C11_LoadFailsSoft ==
    (pc # "idle" /\ file.status # "ok") =>
        /\ app_mappings = <<>>
        /\ \A e \in DOMAIN events : get_category(app_mappings, e.app_name) = "Other"

(***************************************************************************)
(* C12: after a cycle both of whose passes commit, every hourly bucket of  *)
(* a (date, hour) slot that lies after reprocess_from, and every daily     *)
(* bucket of a date from the daily reprocess date on, carries the category *)
(* get_category returns for its app_name under the rules of that cycle.    *)
(* Violated for the daily buckets: the daily pass copies the category of   *)
(* the hourly rows, and those outside the hourly window keep the old one.  *)
(***************************************************************************)
C12_HourlyReclassified ==
    HourlyCommits =>
        \A r \in DOMAIN hourly_usage' :
            TS(r.date, r.hour, 0, 0) > start_processing_ts(hourly_usage) =>
                r.category = get_category(app_mappings, r.app_name)

C12_DailyReclassified ==
    (DailyCommits /\ "hourly" \notin failed) =>
        \A r \in DOMAIN daily_usage' :
            r.date >= start_processing_date =>
                r.category = get_category(app_mappings, r.app_name)

C12_Reclassified == [][C12_HourlyReclassified /\ C12_DailyReclassified]_vars

(***************************************************************************)
(* Measures of the classification                                          *)
(***************************************************************************)
\* positions of the flattened map whose pattern is a substring of the name
Matching(mappings, n) ==
    {i \in 1..Len(mappings) : IsSubstring(mappings[i].app, lower(n))}

\* positions whose pattern is the lowercased name itself
Exact(mappings, n) == {i \in 1..Len(mappings) : mappings[i].app = lower(n)}

\* the patterns as the categories file spells them
FilePatterns(f) ==
    UNION { {f.categories[i].apps[j] : j \in 1..Len(f.categories[i].apps)} :
              i \in 1..Len(f.categories) }

C14_PriorityExample_Stated ==
    (pc = "classified" /\ file = PriorityRules /\ name_arg = CodeFire) =>
        category_ret = "Work"

(***************************************************************************)
(* C14, amended: with these rules "CodeFire" is classified "Browsers", by  *)
(* the exact match on "codefire"; it is classified "Work", by the          *)
(* substring "code", under every rule set of the model in which "code" is  *)
(* the only pattern that occurs in "codefire".                             *)
(***************************************************************************)
C14_PriorityExample ==
    (pc = "classified" /\ name_arg = CodeFire) =>
        /\ file = PriorityRules => category_ret = "Browsers"
        /\ ( /\ \E i \in 1..Len(app_mappings) :
                   app_mappings[i] = [app |-> code, category |-> "Work"]
             /\ \A i \in Matching(app_mappings, CodeFire) : app_mappings[i].app = code )
           => category_ret = "Work"

\* "CodeFire" has been classified under the rules of the example
C14_Witness ==
    /\ pc = "classified"
    /\ file = PriorityRules
    /\ name_arg = CodeFire
    /\ category_ret = "Browsers"

C16_StageOrder ==
    [][ /\ (pc' = "hourly_select" /\ pc # "hourly_select") =>
              /\ pc = "idle"
              /\ app_mappings' = load_categories(app_mappings, file)
        /\ (pc' \in DailyPcs /\ pc \notin DailyPcs) =>
              /\ pc \in HourlyPcs
              /\ tx' = NoTx
              /\ hourly_data' = {}
              /\ HourlyCommits => hourly_usage' = tx.hourly_usage
        /\ (pc = "daily_select" /\ pc' = "daily_delete") =>
              daily_data' =
                  SelectHourlyUsage(hourly_usage, StartProcessingDate(daily_usage))
        /\ pc \in DailyPcs => hourly_usage' = hourly_usage
        /\ pc # "idle" => (app_mappings' = app_mappings /\ file' = file) ]_vars

\* the daily pass has selected the buckets the hourly pass of the same cycle
\* committed under reloaded rules
C16_Witness ==
    /\ pc = "daily_delete"
    /\ "hourly" \notin failed
    /\ events # EmptyBag
    /\ seen = events
    /\ seen_mappings = app_mappings
    /\ daily_usage = EmptyBag
    /\ \E r \in daily_data : r.category # "Other"

(***************************************************************************)
(* C17: when an hourly pass ends without failing, after passes that failed *)
(* since the last one that ended well, hourly_usage is what it would be    *)
(* had each of those passes run to its end on the events it found, and     *)
(* this pass after them.  Violated: a failed pass leaves the watermark     *)
(* where it was, so the retry selects from further back than the pass of   *)
(* a run without failures and rewrites slots that run leaves alone.        *)
(***************************************************************************)
C17_RetryConverges ==
    [][ (pc \in HourlyPcs /\ pc' = "daily_select" /\ "hourly" \notin failed') =>
            hourly_usage' =
                HourlyPass(unfailed, IF pc = "hourly_select" THEN events ELSE snapshot,
                           app_mappings) ]_vars

(***************************************************************************)
(* C18: no step of the hourly pass, whether the pass commits or fails,     *)
(* changes daily_usage or daily_category_usage, in the committed tables or *)
(* in its own transaction, and no row of events is changed or deleted.     *)
(***************************************************************************)
C18_HourlyLeavesDaily ==
    [][ (pc \in HourlyPcs) =>
          ( /\ daily_usage' = daily_usage
            /\ daily_category_usage' = daily_category_usage
            /\ pc' \in HourlyPcs \cap WritePcs =>
                  /\ tx'.daily_usage = daily_usage
                  /\ tx'.daily_category_usage = daily_category_usage
            /\ \A e \in DOMAIN events : CopiesIn(e, events') >= CopiesIn(e, events) )
      ]_vars

\* an hourly pass has committed seconds the daily buckets do not hold yet
C18_Witness ==
    /\ pc = "daily_select"
    /\ "hourly" \notin failed
    /\ seen = events
    /\ daily_usage # EmptyBag
    /\ daily_category_usage # EmptyBag
    /\ BagSum(hourly_usage, "total_seconds") # BagSum(daily_usage, "total_seconds")

(***************************************************************************)
(* C20: an hourly pass changes buckets only in the (date, hour) slots that *)
(* hold an event with timestamp > reprocess_from; the rows of every other  *)
(* slot stay as they are, field by field, also when the rules changed.     *)
(***************************************************************************)
SlotsAfter(ev, start) ==
    {<<EventDate(e.timestamp), EventHour(e.timestamp)>> :
        e \in {x \in DOMAIN ev : x.timestamp > start}}

C20_BoundedStaleness ==
    [][ (pc \in HourlyPcs) =>
          \A r \in DOMAIN hourly_usage \cup DOMAIN hourly_usage' :
              <<r.date, r.hour>> \notin
                  SlotsAfter(IF pc = "hourly_select" THEN events ELSE snapshot,
                             start_processing_ts(hourly_usage))
              => CopiesIn(r, hourly_usage') = CopiesIn(r, hourly_usage) ]_vars

\* a pass under changed rules has committed, and a bucket before
\* reprocess_from still has the category of the old rules
C20_Witness ==
    /\ pc = "daily_select"
    /\ "hourly" \notin failed
    /\ seen = events
    /\ seen_mappings = app_mappings
    /\ \E r1 \in DOMAIN hourly_usage, r2 \in DOMAIN hourly_usage :
          /\ r1.app_name = r2.app_name
          /\ TS(r1.date, r1.hour, EndOfHourSecond, 0) < start_processing_ts(hourly_usage)
          /\ r1.category # get_category(app_mappings, r1.app_name)
          /\ r2.category = get_category(app_mappings, r2.app_name)

(***************************************************************************)
(* C19: an event with a negative duration or with a timestamp that is no   *)
(* date adds to no bucket: every bucket a pass writes holds the sum and    *)
(* the number of the valid events the pass selected for its key, and the   *)
(* rows the pass is about to insert are accepted by the table, so that the *)
(* pass commits what the valid events give.  Violated: the SELECT sums a   *)
(* negative duration like any other, and the group of the unparseable      *)
(* timestamps has a NULL date, on which the INSERT and so the pass fails.  *)
(***************************************************************************)
Valid(e) == e.duration_seconds >= 0 /\ e.timestamp # BadTimestamp

ValidSelected(ev, start, k) ==
    Where(ev, {e \in DOMAIN ev :
                  e.timestamp > start /\ Valid(e) /\ EventKeyTuple(e) = k})

C19_BadRowsRejected ==
    [][ /\ HourlyCommits =>
              \A r \in DOMAIN hourly_usage' :
                  <<r.date, r.hour>> \in hours_to_update(hourly_data) =>
                      LET good == ValidSelected(snapshot,
                                      start_processing_ts(hourly_usage), HourlyKey(r))
                      IN  /\ r.total_seconds = BagSum(good, "duration_seconds")
                          /\ r.event_count = BagCardinality(good)
        /\ (pc = "hourly_insert") =>
              not_null_hourly(HourlyRows(hourly_data, app_mappings)) ]_vars

(***************************************************************************)
(* C21: no bucket has a NULL category; every bucket an hourly pass writes  *)
(* carries get_category(app_name) under the rules loaded for its cycle;    *)
(* and every bucket a pass writes, hourly or daily, carries "Other" or a   *)
(* category name of the rules loaded for its cycle.  Violated for the      *)
(* daily buckets: the daily pass copies the category of hourly rows that   *)
(* an earlier cycle wrote under other rules.                               *)
(***************************************************************************)
\* the category names of the loaded rules
RuleNames(mappings) == {mappings[i].category : i \in 1..Len(mappings)}

C21_CategoryResolved ==
    [][ /\ \A r \in DOMAIN hourly_usage' \cup DOMAIN daily_usage' : r.category # NULL
        /\ HourlyCommits =>
              \A r \in DOMAIN hourly_usage' :
                  <<r.date, r.hour>> \in hours_to_update(hourly_data) =>
                      /\ r.category = get_category(app_mappings, r.app_name)
                      /\ r.category \in {"Other"} \cup RuleNames(app_mappings)
        /\ DailyCommits =>
              \A r \in DOMAIN daily_usage' :
                  r.date \in dates_to_update(daily_data) =>
                      r.category \in {"Other"} \cup RuleNames(app_mappings) ]_vars

(***************************************************************************)
(* C22: a daily pass run again right after a daily pass that committed,    *)
(* on the same hourly buckets, leaves daily_usage and daily_category_usage *)
(* as they are; and a cycle run again after a cycle that ended without     *)
(* failure, with no new event and no rule change, leaves the three bucket  *)
(* tables as they are.  The first half holds.  The second is violated: the *)
(* hourly pass of the second cycle replaces a bucket of hour H-2 by the    *)
(* events of its last second only.                                         *)
(***************************************************************************)
C22_DailyIdempotent ==
    DailyCommits =>
        DailyPass(hourly_usage, daily_usage', daily_category_usage')
            = <<daily_usage', daily_category_usage'>>

C22_CycleIdempotent ==
    ( /\ pc = "cycle_end" /\ pc' = "idle"
      /\ failed = {}
      /\ events = seen
      /\ load_categories(app_mappings, file) = app_mappings )
    => LET h2 == HourlyPass(hourly_usage, events, app_mappings)
       IN  /\ h2 = hourly_usage
           /\ DailyPass(h2, daily_usage, daily_category_usage)
                 = <<daily_usage, daily_category_usage>>

C22_Idempotent == [][C22_DailyIdempotent /\ C22_CycleIdempotent]_vars

(***************************************************************************)
(* C23: from empty bucket tables and the two firefox events of 10:05:00    *)
(* (30 s) and 10:50:00 (20 s) of one day, an hourly pass that commits      *)
(* leaves exactly one hourly bucket, (day, hour 10, firefox) with 50       *)
(* seconds and 2 events, and a daily pass that commits on it leaves        *)
(* exactly one daily bucket (day, firefox) with 50 seconds and exactly one *)
(* category bucket (day, get_category("firefox")) with 50 seconds.         *)
(***************************************************************************)
ScenarioHourly(url, mappings) ==
    SetToBag({ [date |-> 0, hour |-> 10, device_type |-> "desktop",
                app_name |-> firefox, website_url |-> url,
                category |-> get_category(mappings, firefox),
                total_seconds |-> 50, event_count |-> 2] })

ScenarioDaily(url, category) ==
    SetToBag({ [date |-> 0, device_type |-> "desktop", app_name |-> firefox,
                website_url |-> url, category |-> category,
                total_seconds |-> 50, event_count |-> 2] })

ScenarioCategory(category) ==
    SetToBag({ [date |-> 0, device_type |-> "desktop", category |-> category,
                total_seconds |-> 50] })

C23_EndToEnd ==
    [][ \A url \in {NULL, "a.com"} :
          /\ (HourlyCommits /\ hourly_usage = EmptyBag /\ snapshot = ScenarioEvents(url))
                => hourly_usage' = ScenarioHourly(url, app_mappings)
          /\ \A category \in {"Other", "Web"} :
                ( /\ DailyCommits
                  /\ daily_usage = EmptyBag /\ daily_category_usage = EmptyBag
                  /\ hourly_usage = ScenarioHourly(url, app_mappings)
                  /\ category = get_category(app_mappings, firefox) )
                => /\ daily_usage' = ScenarioDaily(url, category)
                   /\ daily_category_usage' = ScenarioCategory(category) ]_vars

\* the first cycle has ended on the two events: one bucket in each table
C23_Witness ==
    /\ pc = "cycle_end"
    /\ failed = {}
    /\ events = ScenarioEvents(NULL)
    /\ get_category(app_mappings, firefox) = "Web"
    /\ hourly_usage = ScenarioHourly(NULL, app_mappings)
    /\ daily_usage = ScenarioDaily(NULL, "Web")
    /\ daily_category_usage = ScenarioCategory("Web")

(***************************************************************************)
(* C24: when the SELECT of the hourly pass finds no event after            *)
(* reprocess_from, the pass ends there: it opens no write transaction,     *)
(* deletes and inserts nothing, and the three bucket tables stay as they   *)
(* are; likewise the daily pass when its SELECT finds no hourly bucket.    *)
(***************************************************************************)
C24_EmptySelectionNoOp ==
    [][ /\ ( /\ pc = "hourly_select"
             /\ SelectEvents(events, start_processing_ts(hourly_usage)) = {} )
           => /\ pc' \in {"hourly_select", "daily_select"}
              /\ tx' = NoTx
              /\ tables' = tables
        /\ ( /\ pc = "daily_select"
             /\ SelectHourlyUsage(hourly_usage, StartProcessingDate(daily_usage)) = {} )
           => /\ pc' \in {"daily_select", "cycle_end"}
              /\ tx' = NoTx
              /\ tables' = tables ]_vars

\* a cycle has ended in which both passes found nothing to select
C24_Witness ==
    /\ pc = "cycle_end"
    /\ failed = {}
    /\ SelectEvents(events, start_processing_ts(hourly_usage)) = {}
    /\ SelectHourlyUsage(hourly_usage, StartProcessingDate(daily_usage)) = {}

(***************************************************************************)
(* C25: the loop is either between cycles or in a cycle; a cycle starts    *)
(* only from between cycles and runs to its end before the loop sleeps; a  *)
(* pass holds rows or an open transaction only while it runs, so that when *)
(* the hourly pass runs the daily pass holds nothing, and the other way    *)
(* round; and the delivery of a signal starts, ends and moves nothing.     *)
(***************************************************************************)
IdlePcs == {"loop_test", "idle", "sleep", "stopped"}
RunningPcs == HourlyPcs \cup DailyPcs \cup {"cycle_end"}

OnePass ==
    /\ pc \in IdlePcs \cup RunningPcs
    /\ tx # NoTx => pc \in WritePcs
    /\ pc \notin HourlyPcs => hourly_data = {} /\ snapshot = EmptyBag
    /\ pc \notin DailyPcs => daily_data = {} /\ start_processing_date = NoDate

C25_NoOverlap ==
    [][ /\ OnePass /\ OnePass'
        /\ (pc' = "hourly_select" /\ pc # "hourly_select") => pc = "idle"
        /\ (pc' \in DailyPcs /\ pc \notin DailyPcs) => pc \in HourlyPcs
        /\ pc \in RunningPcs => pc' \in RunningPcs \cup {"sleep"}
        /\ running' # running => (pc' = pc /\ tx' = tx /\ tables' = tables) ]_vars

\* the signal has been delivered during a cycle: the daily pass is in its
\* transaction, after an hourly pass that committed
C25_Witness ==
    /\ ~running
    /\ pc \in DailyPcs \cap WritePcs
    /\ "hourly" \notin failed
    /\ hourly_usage # EmptyBag
    /\ tx # NoTx

(***************************************************************************)
(* C30: once a signal has been delivered the loop test lets no cycle       *)
(* start; the delivery leaves the position of the loop, its transaction    *)
(* and the tables as they are, and a transaction open at that time ends by *)
(* the commit or the failure of its own pass; the loop ends at its test    *)
(* only; and it does end.                                                  *)
(***************************************************************************)
C30_GracefulShutdown ==
    /\ [][ /\ (~running /\ pc' = "idle") => pc = "idle"
           /\ pc' = "stopped" => (pc \in {"loop_test", "stopped"} /\ ~running)
           /\ running' # running =>
                 /\ ~running'
                 /\ pc' = pc
                 /\ tx' = tx
                 /\ tables' = tables
                 /\ hourly_data' = hourly_data
                 /\ daily_data' = daily_data
           /\ (~running /\ tx # NoTx /\ tx' = NoTx) =>
                 (HourlyCommits \/ DailyCommits \/ PassFails) ]_vars
    /\ ((~running) ~> (pc = "stopped"))

\* the loop has ended after cycles that committed buckets
C30_Witness ==
    /\ pc = "stopped"
    /\ ~running
    /\ hourly_usage # EmptyBag
    /\ daily_category_usage # EmptyBag

(***************************************************************************)
(* C26: the events an hourly pass reads are exactly those with a timestamp *)
(* strictly greater than the bound, which is two hours before the end (the *)
(* last second) of the greatest (date, hour) slot of hourly_usage: the     *)
(* rows the pass selects count and sum these events per key, and the pass  *)
(* returns early exactly when there is none.  With no bucket the bound is  *)
(* the epoch and every event of the store is read.                         *)
(***************************************************************************)
Epoch == TS(0, 0, 0, 0)

GreatestSlot(h) ==
    CHOOSE s \in SlotsOf(h) :
        \A t \in SlotsOf(h) : t[1] < s[1] \/ (t[1] = s[1] /\ t[2] <= s[2])

ReprocessFrom(h) ==
    IF h = EmptyBag THEN Epoch
    ELSE TS(GreatestSlot(h)[1], GreatestSlot(h)[2], EndOfHourSecond, 0)
            - 2 * TicksPerHour

InWindow(ev, h) == Where(ev, {e \in DOMAIN ev : e.timestamp > ReprocessFrom(h)})

C26_ReprocessWindow ==
    [][ (pc = "hourly_select" /\ pc' # pc /\ "hourly" \notin failed') =>
          LET read == InWindow(events, hourly_usage)
              grp(row) == Where(read, {e \in DOMAIN read :
                                          EventKeyTuple(e) = HourlyKey(row)})
          IN  /\ pc' = "daily_select" <=> read = EmptyBag
              /\ \A e \in DOMAIN read :
                    \E row \in hourly_data' : HourlyKey(row) = EventKeyTuple(e)
              /\ \A row \in hourly_data' :
                    /\ row.event_count = BagCardinality(grp(row))
                    /\ row.event_count > 0
                    /\ row.total_seconds = BagSum(grp(row), "duration_seconds")
              /\ hourly_usage = EmptyBag => read = events ]_vars

\* a pass has selected the events after the bound and left out one before it
C26_Witness ==
    /\ pc = "hourly_delete"
    /\ hourly_usage # EmptyBag
    /\ snapshot = events
    /\ InWindow(events, hourly_usage) # EmptyBag
    /\ \E e \in DOMAIN events : e.timestamp <= ReprocessFrom(hourly_usage)

(***************************************************************************)
(* C27: when a daily pass commits, every daily bucket, of whatever date,   *)
(* holds the sum of the hourly buckets of its (date, device_type,          *)
(* app_name, website_url), and every date with hourly buckets has daily    *)
(* buckets; and an hourly pass changes no slot of a date before the        *)
(* greatest date of daily_usage minus one day.  The second half holds, and *)
(* so does the first for the sum over the daily rows of a key.  The first  *)
(* is violated bucket by bucket: after a rule change the hourly rows of    *)
(* one key carry two categories and the daily pass writes one row for      *)
(* each.                                                                   *)
(***************************************************************************)
C27_EveryDateSummed ==
    DailyCommits =>
        /\ DatesOf(hourly_usage) \subseteq DatesOf(daily_usage')
        /\ \A r \in DOMAIN daily_usage' :
              r.total_seconds = DailyKeySum(hourly_usage, DailyKey(r), "total_seconds")

C27_KeySumsCovered ==
    DailyCommits =>
        \A k \in {DailyKey(r) : r \in DOMAIN hourly_usage}
                    \cup {DailyKey(r) : r \in DOMAIN daily_usage'} :
            DailyKeySum(daily_usage', k, "total_seconds")
                = DailyKeySum(hourly_usage, k, "total_seconds")

C27_HourlyInsideLookback ==
    (pc \in HourlyPcs /\ daily_usage # EmptyBag) =>
        \A r \in DOMAIN hourly_usage \cup DOMAIN hourly_usage' :
            CopiesIn(r, hourly_usage') # CopiesIn(r, hourly_usage) =>
                r.date >= SetMax(DatesOf(daily_usage)) - 1

C27_LookbackCovers ==
    [][C27_EveryDateSummed /\ C27_KeySumsCovered /\ C27_HourlyInsideLookback]_vars

(***************************************************************************)
(* C28: no step takes a (date, hour) slot out of hourly_usage or a date    *)
(* out of daily_usage: every slot and every date a pass deletes is in the  *)
(* tables of its transaction again when the pass is about to commit; so    *)
(* the hourly watermark and the daily watermark never decrease.            *)
(***************************************************************************)
C28_WatermarksMonotone ==
    [][ /\ SlotsOf(hourly_usage) \subseteq SlotsOf(hourly_usage')
        /\ DatesOf(daily_usage) \subseteq DatesOf(daily_usage')
        /\ pc' = "hourly_commit" =>
              SlotsOf(hourly_usage) \subseteq SlotsOf(tx'.hourly_usage)
        /\ pc' \in {"daily_category", "daily_commit"} =>
              DatesOf(daily_usage) \subseteq DatesOf(tx'.daily_usage)
        /\ last_processed_ts(hourly_usage') >= last_processed_ts(hourly_usage)
        /\ last_processed_date(daily_usage') >= last_processed_date(daily_usage) ]_vars

\* a pass is about to commit that deleted a slot and inserted it again, next
\* to a slot it did not select
C28_Witness ==
    /\ pc = "hourly_commit"
    /\ daily_usage # EmptyBag
    /\ \E slot \in SlotsOf(hourly_usage) :
          /\ slot \in hours_to_update(hourly_data)
          /\ slot \in SlotsOf(tx.hourly_usage)
    /\ \E slot \in SlotsOf(hourly_usage) : slot \notin hours_to_update(hourly_data)
    /\ tx.hourly_usage # hourly_usage

(***************************************************************************)
(* C29: every date of daily_usage is a date of hourly_usage; the category  *)
(* step of a daily pass selects rows only for dates whose category rows    *)
(* the pass has deleted, and none for a (date, device_type, category) that *)
(* daily_category_usage still holds, so that its INSERT never hits the     *)
(* UNIQUE constraint.                                                      *)
(***************************************************************************)
C29_CategoryInsideTouched ==
    [][ /\ DatesOf(daily_usage) \subseteq DatesOf(hourly_usage)
        /\ DatesOf(daily_usage') \subseteq DatesOf(hourly_usage')
        /\ (pc = "daily_category") =>
              LET category_data ==
                      SelectDailyUsage(tx.daily_usage, start_processing_date)
              IN  /\ {row.date : row \in category_data}
                        \subseteq dates_to_update(daily_data)
                  /\ \A row \in category_data :
                        CategoryCopies(tx.daily_category_usage, CategoryKey(row)) = 0
                  /\ uq_daily_cat(InsertAll(tx.daily_category_usage, category_data)) ]_vars

\* the category step has replaced the rows of one date and left those of an
\* earlier date, outside the daily window, as they were
C29_Witness ==
    /\ pc = "daily_commit"
    /\ \E d1 \in DatesOf(daily_category_usage), d2 \in DatesOf(daily_category_usage) :
          /\ d1 < start_processing_date
          /\ d2 \in dates_to_update(daily_data)
          /\ d1 \in DatesOf(tx.daily_category_usage)
          /\ d2 \in DatesOf(tx.daily_category_usage)
    /\ tx.daily_category_usage # daily_category_usage

(***************************************************************************)
(* C31: the flattened map is a function of the categories file: its keys   *)
(* are the lowercased patterns of the file, each at the position of its    *)
(* first occurrence and with the category of its last occurrence, which is *)
(* what get_category returns for the pattern; and a call of get_category   *)
(* made before the file is loaded a second time returns what the same call *)
(* returns after it.                                                       *)
(***************************************************************************)
\* the (pattern, category) pairs of the file in the order of the file
RECURSIVE Flatten(_)
Flatten(cats) ==
    IF cats = <<>> THEN <<>>
    ELSE [j \in 1..Len(Head(cats).apps) |->
              [app |-> lower(Head(cats).apps[j]), category |-> Head(cats).name]]
            \o Flatten(Tail(cats))

FirstAt(flat, p) ==
    CHOOSE i \in 1..Len(flat) :
        flat[i].app = p /\ \A j \in 1..Len(flat) : flat[j].app = p => i <= j

LastAt(flat, p) ==
    CHOOSE i \in 1..Len(flat) :
        flat[i].app = p /\ \A j \in 1..Len(flat) : flat[j].app = p => j <= i

Other == "Other"
ApiCategoryNames == {"Work", "Web", Other}
ApiAppNames == {code, firefox}

AppRow(a, c) == [app_name |-> a, category_name |-> c]

\* what the requests of the category API leave alone
processor == <<running, call, events, file, app_mappings, tables, tx,
               hourly_data, daily_data, start_processing_date, pc, failed,
               history>>

Request(op, c, a, st) ==
    [op |-> op, category_name |-> c, app_name |-> a, status |-> st,
     categories_before |-> categories, rows_before |-> app_categories]

\* abort(status, ...): the handler stops before it wrote anything
Abort(op, c, a, st) ==
    /\ response' = Request(op, c, a, st)
    /\ UNCHANGED <<categories, app_categories, processor>>

\* db.session.commit(): the changes of the session are stored and the handler
\* returns st, or the commit raises, the session is discarded and the request
\* ends with 500
Commit(op, c, a, st, cats, rows) ==
    \/ /\ categories' = cats
       /\ app_categories' = rows
       /\ response' = Request(op, c, a, st)
       /\ UNCHANGED processor
    \/ Abort(op, c, a, 500)

\* AppCategory.query.filter_by(app_name=a).delete()
DeleteByAppName_None(rows, a) == rows
DeleteByAppName(rows, a) ==
    [r \in {x \in DOMAIN rows : x.app_name # a} |-> rows[r]]

\* Category.apps: the rows of app_categories that name the category
Category_apps(rows, c) == {r \in DOMAIN rows : r.category_name = c}

\* for app in category.apps: app.category_name = "Other"
ReassignToOther_Skip(rows, c) == rows
ReassignToOther(rows, c) ==
    LET moved == {[r EXCEPT !.category_name = Other] : r \in Category_apps(rows, c)}
        kept == DOMAIN rows \ Category_apps(rows, c)
    IN  [t \in kept \cup moved |->
            (IF t \in kept THEN rows[t] ELSE 0)
          + (IF t \in moved THEN CopiesIn([t EXCEPT !.category_name = c], rows) ELSE 0)]

\* db.session.delete(category), as the flush applies it to app_categories: the
\* row of the category goes and the rows of the apps stay as the handler set
\* them (the handler's own account: "deleted and its apps moved to 'Other'")
session_delete(rows, c) == rows

create_category(name) ==
    IF name \in categories
    THEN Abort("create_category", name, <<>>, 409)
    ELSE Commit("create_category", name, <<>>, 201,
                categories \cup {name}, app_categories)

delete_category(category_name) ==
    IF category_name \notin categories
    THEN Abort("delete_category", category_name, <<>>, 404)
    ELSE IF category_name = Other
    THEN Abort("delete_category", category_name, <<>>, 400)
    ELSE Commit("delete_category", category_name, <<>>, 200,
                (categories \cup {Other}) \ {category_name},
                session_delete(ReassignToOther(app_categories, category_name),
                               category_name))

add_app_to_category(category_name, app_name) ==
    IF app_name = <<>>
    THEN Abort("add_app_to_category", category_name, app_name, 400)
    ELSE IF category_name \notin categories
    THEN Abort("add_app_to_category", category_name, app_name, 404)
    ELSE Commit("add_app_to_category", category_name, app_name, 200,
                categories,
                DeleteByAppName(app_categories, app_name)
                    (+) SetToBag({AppRow(app_name, category_name)}))

remove_app_from_category(category_name, app_name) ==
    IF ~ BagIn(AppRow(app_name, category_name), app_categories)
    THEN Abort("remove_app_from_category", category_name, app_name, 404)
    ELSE Commit("remove_app_from_category", category_name, app_name, 200,
                categories,
                app_categories (-) SetToBag({AppRow(app_name, category_name)}))

\* scripts/migrate_categories.py: both tables are dropped, created and filled
\* from the categories file; an app listed under several categories keeps one
\* row, moved to the last category that lists it
migrate_categories(f) ==
    LET cs == f.categories
        lists(i, a) == \E j \in 1..Len(cs[i].apps) : cs[i].apps[j] = a
        apps == {a \in ApiAppNames : \E i \in 1..Len(cs) : lists(i, a)}
        last(a) == CHOOSE i \in 1..Len(cs) :
                       lists(i, a) /\ \A k \in 1..Len(cs) : lists(k, a) => k <= i
    IN  [categories |-> {cs[i].name : i \in 1..Len(cs)},
         app_categories |-> SetToBag({AppRow(a, cs[last(a)].name) : a \in apps})]

\* the backend starts on the database the migration left
ApiInit ==
    /\ events = EmptyBag
    /\ file \in RuleFiles
    /\ app_mappings = load_categories(<<>>, file)
    /\ categories = migrate_categories(file).categories
    /\ app_categories = migrate_categories(file).app_categories
    /\ response = NoRequest
    /\ hourly_usage = EmptyBag
    /\ daily_usage = EmptyBag
    /\ daily_category_usage = EmptyBag
    /\ tx = NoTx
    /\ hourly_data = {}
    /\ daily_data = {}
    /\ start_processing_date = NoDate
    /\ pc = "idle"
    /\ failed = {}
    /\ snapshot = EmptyBag
    /\ seen = EmptyBag
    /\ seen_mappings = <<>>
    /\ unfailed = EmptyBag
    /\ name_arg = <<>>
    /\ category_ret = "Other"
    /\ running = TRUE

ApiNext ==
    \/ \E name \in ApiCategoryNames : create_category(name)
    \/ \E c \in ApiCategoryNames : delete_category(c)
    \/ \E c \in ApiCategoryNames, a \in ApiAppNames \cup {<<>>} :
           add_app_to_category(c, a)
    \/ \E c \in ApiCategoryNames, a \in ApiAppNames :
           remove_app_from_category(c, a)

ApiSpec == ApiInit /\ [][ApiNext]_vars

\* ---------------------------------------------------------------------------
\* C32  An app belongs to one category.  After add_app_to_category(C, a)
\* returned 200, table app_categories holds one row for app a and it names C,
\* whatever rows the app had before; when category C does not exist the call
\* returns 404 and both tables are as the request found them.
\* ---------------------------------------------------------------------------
C32_OneCategory ==
    LET a == response.app_name
        c == response.category_name
    IN  (response.op = "add_app_to_category" /\ a # <<>>) =>
            /\ response.status = 200 =>
                  /\ CopiesIn(AppRow(a, c), app_categories) = 1
                  /\ \A r \in DOMAIN app_categories :
                         r.app_name = a => r.category_name = c
            /\ c \notin response.categories_before =>
                  /\ response.status = 404
                  /\ categories = response.categories_before
                  /\ app_categories = response.rows_before
            /\ response.status = 404 => c \notin response.categories_before

\* an app that was mapped to another category has just been assigned
C32_Witness ==
    /\ response.op = "add_app_to_category"
    /\ response.status = 200
    /\ \E r \in DOMAIN response.rows_before :
          /\ r.app_name = response.app_name
          /\ r.category_name # response.category_name
    /\ BagIn(AppRow(response.app_name, response.category_name), app_categories)

\* ---------------------------------------------------------------------------
\* C33  The default category survives deletion.  delete_category("Other") is
\* rejected and changes nothing: with 400 when category "Other" exists, with
\* 404 when it does not.  After delete_category(C) returned 200 for C other
\* than "Other", category "Other" exists, category C does not, and every app
\* that was mapped to C is mapped to "Other" and no longer to C.
\* ---------------------------------------------------------------------------
C33_MovedToOther ==
    LET c == response.category_name
    IN  /\ Other \in categories
        /\ c \notin categories
        /\ Category_apps(app_categories, c) = {}
        /\ \A r \in Category_apps(response.rows_before, c) :
               BagIn(AppRow(r.app_name, Other), app_categories)

C33_Unchanged ==
    /\ categories = response.categories_before
    /\ app_categories = response.rows_before

C33_DefaultSurvives ==
    response.op = "delete_category" =>
        /\ response.category_name = Other =>
              /\ response.status =
                     (IF Other \in response.categories_before THEN 400 ELSE 404)
              /\ C33_Unchanged
        /\ (response.category_name # Other /\ response.status = 200) =>
              C33_MovedToOther

\* the claim as stated: 400 in every state
C33_DefaultSurvives_Stated ==
    response.op = "delete_category" =>
        /\ response.category_name = Other =>
              /\ response.status = 400
              /\ C33_Unchanged
        /\ (response.category_name # Other /\ response.status = 200) =>
              C33_MovedToOther

\* a category with an app has just been deleted while "Other" held another app
C33_Witness ==
    /\ response.op = "delete_category"
    /\ response.status = 200
    /\ Category_apps(response.rows_before, response.category_name) # {}
    /\ Category_apps(response.rows_before, Other) # {}
    /\ BagCardinality(app_categories) = 2
    /\ Category_apps(app_categories, Other) = DOMAIN app_categories

====
